---------------------------- MODULE Spec2Model ----------------------------
(***************************************************************************)
(* A model of the ski-resort forecast application (samyuyitung/xue):       *)
(*   js/data/forecastTransformer.js  the 4-hour slot aggregator            *)
(*   js/config/metrics.js            the metric registry (getMetrics)      *)
(*   js/api/weatherApi.js            the interval distributor and merge    *)
(*   js/main.js                      the unit toggle / render loop         *)
(*                                                                         *)
(* Conventions of the model                                                *)
(*   - an instant is a number of MINUTES on the absolute time axis (the    *)
(*     code's epoch milliseconds divided by 60000); the axis is shifted so *)
(*     that local wall-clock time equals the instant before the host time  *)
(*     zone's offset change, and instant 0 is a local Sunday midnight;     *)
(*   - a JavaScript number is an exact rational [tag |-> "num", n, d] in   *)
(*     lowest terms (IEEE-754 rounding is not modelled);                   *)
(*   - a JavaScript string is a sequence of one-character strings;         *)
(*   - null and undefined are the tagged values Null and Undefined.        *)
(***************************************************************************)
EXTENDS Integers, Sequences, FiniteSets, TLC

VARIABLES
    pc,           \* position of the run: which step has been taken
    tz,           \* the host's time zone: its UTC-offset change, if any
    periods,      \* the hourly records of one resort (result.periods)
    unitSystem,   \* main.js: let unitSystem
    transformed,  \* the last transformForecast result rendered
    values,       \* the values extracted from one slot's records
    aggregated,   \* the last aggregateValues call: its mode and result
    series,       \* one raw interval series (gridData.<name>.values)
    distributed,  \* the last distributeTimeSeries call: its outcome
    ran,          \* the functions the last handler called, and the handler
    record,       \* one hourly record given to the metric registry
    cell,         \* its extracted values and their formatted strings
    gridData,     \* the raw gridpoint properties given to mergePrecipData
    merged,       \* the last mergePrecipData call: its outcome
    now,          \* Date.now(), in minutes
    cache,        \* weatherApi.js: const cache
    loads,        \* the loadForecasts runs started so far
    cachedResults,\* main.js: let cachedResults
    lastUpdate,   \* main.js: let lastUpdate
    view          \* what the forecast container shows

registryVars == <<record, cell>>
mergeVars == <<gridData, merged>>
appVars == <<now, cache, loads, cachedResults, lastUpdate, view>>

vars == <<pc, tz, periods, unitSystem, transformed, values, aggregated,
          series, distributed, ran, registryVars, mergeVars, appVars>>

----------------------------------------------------------------------------
(* JavaScript values *)

Null == [tag |-> "null"]
Undefined == [tag |-> "undefined"]

Abs(i) == IF i < 0 THEN -i ELSE i

RECURSIVE GCD(_, _)
GCD(a, b) == IF b = 0 THEN a ELSE GCD(b, a % b)

\* the number n/d (d > 0), in lowest terms
Num(n, d) ==
    LET g == GCD(Abs(n), d)
    IN  [tag |-> "num", n |-> n \div g, d |-> d \div g]

Whole(i) == Num(i, 1)

NumAdd(a, b) == Num(a.n * b.d + b.n * a.d, a.d * b.d)
NumSub(a, b) == Num(a.n * b.d - b.n * a.d, a.d * b.d)
NumMul(a, b) == Num(a.n * b.n, a.d * b.d)
\* a / k for a whole number k >= 1
NumDivInt(a, k) == Num(a.n, a.d * k)
NumLe(a, b) == a.n * b.d <= b.n * a.d
NumMax(a, b) == IF NumLe(a, b) THEN b ELSE a
NumMin(a, b) == IF NumLe(a, b) THEN a ELSE b

\* Math.round: the nearest whole number, halves rounded up
MathRound(a) == (2 * a.n + a.d) \div (2 * a.d)

Text(s) == [tag |-> "text", text |-> s]

IsNullish(v) == v.tag \in {"null", "undefined"}
IsNumber(v) == v.tag = "num"

\* v ?? dflt
Coalesce(v, dflt) == IF IsNullish(v) THEN dflt ELSE v

----------------------------------------------------------------------------
(* Strings: sequences of characters *)

Digits == <<"0", "1", "2", "3", "4", "5", "6", "7", "8", "9">>

IsDigit(c) == \E k \in 1..10 : Digits[k] = c

DigitVal(c) == (CHOOSE k \in 1..10 : Digits[k] = c) - 1

\* parseInt(s, 10) of a non-empty run of digits
RECURSIVE ParseDigits(_)
ParseDigits(s) ==
    IF s = <<>> THEN 0
    ELSE 10 * ParseDigits(SubSeq(s, 1, Len(s) - 1)) + DigitVal(s[Len(s)])

\* the length of the run of digits of s that starts at position i
RECURSIVE DigitRun(_, _)
DigitRun(s, i) ==
    IF i <= Len(s) /\ IsDigit(s[i]) THEN 1 + DigitRun(s, i + 1) ELSE 0

\* String.prototype.includes
Includes(s, sub) ==
    \E i \in 0..(Len(s) - Len(sub)) : SubSeq(s, i + 1, i + Len(sub)) = sub

Upper == <<"A", "B", "C", "D", "E", "F", "G", "H", "I", "J", "K", "L", "M",
           "N", "O", "P", "Q", "R", "S", "T", "U", "V", "W", "X", "Y", "Z">>
Lower == <<"a", "b", "c", "d", "e", "f", "g", "h", "i", "j", "k", "l", "m",
           "n", "o", "p", "q", "r", "s", "t", "u", "v", "w", "x", "y", "z">>

LowerChar(c) ==
    IF \E k \in 1..26 : Upper[k] = c
    THEN Lower[CHOOSE k \in 1..26 : Upper[k] = c]
    ELSE c

\* String.prototype.toLowerCase
ToLowerCase(s) == [i \in 1..Len(s) |-> LowerChar(s[i])]

----------------------------------------------------------------------------
(* Date: local wall-clock time in the host's time zone *)

HOUR == 60
DAY == 24 * HOUR

\* what the zone's offset change adds to local time (0: no change)
TzShift(z) ==
    CASE z.kind = "back" -> 0 - HOUR
      [] z.kind = "forward" -> HOUR
      [] OTHER -> 0

\* the local wall-clock reading of instant t
LocalTime(z, t) == IF t >= z.at THEN t + TzShift(z) ELSE t

\* the instant of a local wall-clock reading; a reading that occurs twice or
\* never is taken with the offset in force before the change
UTC(z, lt) ==
    IF lt < z.at THEN lt
    ELSE IF lt - TzShift(z) >= z.at THEN lt - TzShift(z)
    ELSE lt

getHours(z, t) == (LocalTime(z, t) \div HOUR) % 24
\* the local calendar day, counted from the day of instant 0
LocalDate(z, t) == LocalTime(z, t) \div DAY
\* 0 = Sunday
getDay(z, t) == LocalDate(z, t) % 7

\* date.setHours(h, 0, 0, 0)
setHours(z, t, h) == UTC(z, LocalDate(z, t) * DAY + h * HOUR)

----------------------------------------------------------------------------
(* js/data/forecastTransformer.js: labels *)

HOURS_PER_SLOT == 4
SLOTS_PER_DAY == 6
DAYS_TO_SHOW == 5
TOTAL_SLOTS == SLOTS_PER_DAY * DAYS_TO_SHOW

DayNames == <<"Sun", "Mon", "Tue", "Wed", "Thu", "Fri", "Sat">>

\* hours % 12 || 12
Hours12(h) == IF h % 12 = 0 THEN 12 ELSE h % 12

formatTimeLabel(z, t) ==
    [hours |-> Hours12(getHours(z, t)),
     ampm |-> IF getHours(z, t) >= 12 THEN "PM" ELSE "AM"]

formatSlotLabel(z, t) ==
    [day |-> DayNames[getDay(z, t) + 1],
     hours |-> Hours12(getHours(z, t)),
     ampm |-> IF getHours(z, t) >= 12 THEN "PM" ELSE "AM"]

\* the month/day pair is given as the local calendar day it denotes
formatDayLabel(z, t) ==
    [day |-> DayNames[getDay(z, t) + 1], date |-> LocalDate(z, t)]

----------------------------------------------------------------------------
(* js/data/forecastTransformer.js: aggregation *)

NotNullish(v) == ~IsNullish(v)

\* the keys of the counts Map, in insertion (first occurrence) order
RECURSIVE MapKeys(_)
MapKeys(s) ==
    IF s = <<>> THEN <<>>
    ELSE LET front == MapKeys(SubSeq(s, 1, Len(s) - 1))
             last == s[Len(s)]
         IN  IF \E k \in DOMAIN front : front[k] = last
             THEN front
             ELSE Append(front, last)

\* counts.get(v)
CountOf(s, v) == Cardinality({k \in DOMAIN s : s[k] = v})

\* counts.forEach: the scan over keys k..Len(keys) from (maxCount, mode)
RECURSIVE ModeScan(_, _, _, _, _)
ModeScan(filtered, keys, k, maxCount, mode) ==
    IF k > Len(keys) THEN mode
    ELSE IF CountOf(filtered, keys[k]) > maxCount
         THEN ModeScan(filtered, keys, k + 1, CountOf(filtered, keys[k]), keys[k])
         ELSE ModeScan(filtered, keys, k + 1, maxCount, mode)

\* counts.forEach with "count >= maxCount": the last of the most frequent wins
RECURSIVE ModeScanLast(_, _, _, _, _)
ModeScanLast(filtered, keys, k, maxCount, mode) ==
    IF k > Len(keys) THEN mode
    ELSE IF CountOf(filtered, keys[k]) >= maxCount
         THEN ModeScanLast(filtered, keys, k + 1, CountOf(filtered, keys[k]), keys[k])
         ELSE ModeScanLast(filtered, keys, k + 1, maxCount, mode)

getMode_lastWins(arr) ==
    LET filtered == SelectSeq(arr, NotNullish)
    IN  IF Len(filtered) = 0 THEN Null
        ELSE ModeScanLast(filtered, MapKeys(filtered), 1, 0, filtered[1])

getMode(arr) ==
    LET filtered == SelectSeq(arr, NotNullish)
    IN  IF Len(filtered) = 0 THEN Null
        ELSE ModeScan(filtered, MapKeys(filtered), 1, 0, filtered[1])

\* arr.reduce((sum, v) => sum + v, 0)
RECURSIVE SumSeq(_)
SumSeq(s) ==
    IF s = <<>> THEN Whole(0)
    ELSE NumAdd(SumSeq(SubSeq(s, 1, Len(s) - 1)), s[Len(s)])

\* the mean over all the records of the slot, the null ones included
average_overRecords(arr) ==
    LET filtered == SelectSeq(arr, IsNumber)
    IN  IF Len(filtered) = 0 THEN Null
        ELSE NumDivInt(SumSeq(filtered), Len(arr))

average(arr) ==
    LET filtered == SelectSeq(arr, IsNumber)
    IN  IF Len(filtered) = 0 THEN Null
        ELSE NumDivInt(SumSeq(filtered), Len(filtered))

sumValues(arr) ==
    LET filtered == SelectSeq(arr, IsNumber)
    IN  IF Len(filtered) = 0 THEN Null
        ELSE SumSeq(filtered)

\* a wind object {speed, direction}; a {speed} object has direction Undefined
WindValue(speed, direction) ==
    [tag |-> "wind", speed |-> speed, direction |-> direction]

IsWind(v) == v.tag = "wind"
NotNull(v) == v.tag # "null"

\* the mean speed over all the wind values, those without a speed included
aggregateWind_overRecords(filtered) ==
    LET speeds == SelectSeq([k \in DOMAIN filtered |-> filtered[k].speed], NotNull)
        directions ==
            SelectSeq([k \in DOMAIN filtered |-> filtered[k].direction], NotNull)
    IN  WindValue(IF Len(speeds) > 0
                  THEN NumDivInt(SumSeq(speeds), Len(filtered))
                  ELSE Null,
                  getMode(directions))

\* the wind branch of aggregateValues
aggregateWind(filtered) ==
    LET speeds == SelectSeq([k \in DOMAIN filtered |-> filtered[k].speed], NotNull)
        directions ==
            SelectSeq([k \in DOMAIN filtered |-> filtered[k].direction], NotNull)
    IN  WindValue(IF Len(speeds) > 0
                  THEN NumDivInt(SumSeq(speeds), Len(speeds))
                  ELSE Null,
                  getMode(directions))

aggregateValues(vals, aggregateMode) ==
    IF Len(vals) = 0 THEN Null
    ELSE LET filtered == SelectSeq(vals, NotNullish)
         IN  IF Len(filtered) = 0 THEN Null
             ELSE IF IsWind(filtered[1]) THEN aggregateWind(filtered)
             ELSE IF Len(SelectSeq(filtered, IsNumber)) = Len(filtered)
                  THEN IF aggregateMode = "sum"
                       THEN sumValues(vals)
                       ELSE average(vals)
             ELSE getMode(vals)

----------------------------------------------------------------------------
(* js/config/metrics.js: the metric registry *)

MetricIds ==
    <<"temperature", "wind", "precipitation-chance", "conditions", "snow-level">>

MetricIdSet == {MetricIds[k] : k \in DOMAIN MetricIds}

\* no metric of getMetrics declares an aggregate property
metricAggregate(id) == "undefined"

fToC(f) == Num((f.n - 32 * f.d) * 5, f.d * 9)
mphToKmh(mph) == NumMul(mph, Num(160934, 100000))
ftToM(ft) == NumMul(ft, Num(3048, 10000))

\* period.windSpeed?.match(/(\d+)/), then parseInt(match[1], 10)
parseWindSpeed(windSpeed) ==
    IF IsNullish(windSpeed) THEN Null
    ELSE LET str == windSpeed.text
             hits == {i \in DOMAIN str : IsDigit(str[i])}
         IN  IF hits = {} THEN Null
             ELSE LET i == CHOOSE j \in hits : \A k \in hits : j <= k
                  IN  Whole(ParseDigits(SubSeq(str, i, i + DigitRun(str, i) - 1)))

extractTemperature(period) == period.temperature

extractWind(period) == WindValue(parseWindSpeed(period.windSpeed), Undefined)

\* the wind extraction of the registry without unit systems ("metrics")
extractWindDirection(period) ==
    WindValue(parseWindSpeed(period.windSpeed),
              IF IsNullish(period.windDirection) \/ period.windDirection.text = <<>>
              THEN Null
              ELSE period.windDirection)

extractPrecipChance(period) ==
    IF IsNullish(period.probabilityOfPrecipitation) THEN Null
    ELSE Coalesce(period.probabilityOfPrecipitation.value, Null)

extractConditions(period) == period.shortForecast

\* without the clamp to [0, 10000]
extractSnowLevel_unclamped(period) ==
    LET temp == period.temperature
    IN  IF IsNullish(temp) THEN Null
        ELSE IF NumLe(temp, Whole(32)) THEN Whole(0)
        ELSE NumAdd(Whole(5000), NumMul(NumSub(temp, Whole(32)), Whole(200)))

extractSnowLevel(period) ==
    LET temp == period.temperature
    IN  IF IsNullish(temp) THEN Null
        ELSE IF NumLe(temp, Whole(32)) THEN Whole(0)
        ELSE NumMax(Whole(0),
                    NumMin(Whole(10000),
                           NumAdd(Whole(5000),
                                  NumMul(NumSub(temp, Whole(32)), Whole(200)))))

extract(id, period) ==
    CASE id = "temperature" -> extractTemperature(period)
      [] id = "wind" -> extractWind(period)
      [] id = "precipitation-chance" -> extractPrecipChance(period)
      [] id = "conditions" -> extractConditions(period)
      [] id = "snow-level" -> extractSnowLevel(period)

\* A formatted string: the placeholder, a rounded number with its suffix
\* (grouped: written by toLocaleString), an icon, or a text returned as it is.
Placeholder == [kind |-> "placeholder"]
Rounded(n, suffix, grouped) ==
    [kind |-> "number", n |-> n, suffix |-> suffix, grouped |-> grouped]
Icon(name) == [kind |-> "icon", icon |-> name]
RawText(str) == [kind |-> "text", text |-> str]

\* value.toLowerCase is not a function: the format call throws a TypeError
Thrown == [kind |-> "TypeError"]

\* !value is false: the value is neither null, undefined, false, 0 nor ''
Truthy(value) ==
    CASE IsNullish(value) -> FALSE
      [] value.tag = "text" -> value.text # <<>>
      [] value.tag = "num" -> value.n # 0
      [] value.tag = "boolean" -> value.val
      [] OTHER -> TRUE

K_thunder == <<"t", "h", "u", "n", "d", "e", "r">>
K_blizzard == <<"b", "l", "i", "z", "z", "a", "r", "d">>
K_snow == <<"s", "n", "o", "w">>
K_rain == <<"r", "a", "i", "n">>
K_freezing_rain == <<"f", "r", "e", "e", "z", "i", "n", "g", " ", "r", "a", "i", "n">>
K_sleet == <<"s", "l", "e", "e", "t">>
K_showers == <<"s", "h", "o", "w", "e", "r", "s">>
K_fog == <<"f", "o", "g">>
K_mist == <<"m", "i", "s", "t">>
K_partly_cloudy == <<"p", "a", "r", "t", "l", "y", " ", "c", "l", "o", "u", "d", "y">>
K_partly_sunny == <<"p", "a", "r", "t", "l", "y", " ", "s", "u", "n", "n", "y">>
K_mostly_cloudy == <<"m", "o", "s", "t", "l", "y", " ", "c", "l", "o", "u", "d", "y">>
K_cloud == <<"c", "l", "o", "u", "d">>
K_overcast == <<"o", "v", "e", "r", "c", "a", "s", "t">>
K_sunny == <<"s", "u", "n", "n", "y">>
K_clear == <<"c", "l", "e", "a", "r">>
K_wind == <<"w", "i", "n", "d">>

\* without the null check: Math.round(null) is 0
formatTemperature_noNullCheck(isMetric, value) ==
    IF value.tag = "null" THEN Rounded(0, "deg", FALSE)
    ELSE Rounded(MathRound(IF isMetric THEN fToC(value) ELSE value), "deg", FALSE)

formatTemperature(isMetric, value) ==
    IF value.tag = "null" THEN Placeholder
    ELSE Rounded(MathRound(IF isMetric THEN fToC(value) ELSE value), "deg", FALSE)

formatWind(isMetric, value) ==
    IF IsNullish(value) \/ value.speed.tag = "null" THEN Placeholder
    ELSE Rounded(MathRound(IF isMetric THEN mphToKmh(value.speed) ELSE value.speed),
                 "", FALSE)

formatPrecipChance(value) ==
    IF value.tag # "null" THEN Rounded(MathRound(value), "%", FALSE)
    ELSE Placeholder

\* the snow rule tried before the rule for snow and rain together
formatConditions_snowFirst(value) ==
    IF ~Truthy(value) THEN Placeholder
    ELSE IF value.tag # "text" THEN Thrown
    ELSE LET lower == ToLowerCase(value.text)
         IN  CASE Includes(lower, K_thunder) -> Icon("thunder")
               [] Includes(lower, K_blizzard) -> Icon("blizzard")
               [] Includes(lower, K_snow) -> Icon("snow")
               [] Includes(lower, K_snow) /\ Includes(lower, K_rain) ->
                      Icon("snow-rain")
               [] Includes(lower, K_freezing_rain) \/ Includes(lower, K_sleet) ->
                      Icon("freezing-rain")
               [] Includes(lower, K_rain) \/ Includes(lower, K_showers) ->
                      Icon("rain")
               [] Includes(lower, K_fog) \/ Includes(lower, K_mist) -> Icon("fog")
               [] Includes(lower, K_partly_cloudy)
                      \/ Includes(lower, K_partly_sunny) -> Icon("partly-cloudy")
               [] Includes(lower, K_mostly_cloudy) -> Icon("mostly-cloudy")
               [] Includes(lower, K_cloud) \/ Includes(lower, K_overcast) ->
                      Icon("cloudy")
               [] Includes(lower, K_sunny) \/ Includes(lower, K_clear) ->
                      Icon("sunny")
               [] Includes(lower, K_wind) -> Icon("windy")
               [] OTHER -> RawText(value.text)

formatConditions(value) ==
    IF ~Truthy(value) THEN Placeholder
    ELSE IF value.tag # "text" THEN Thrown
    ELSE LET lower == ToLowerCase(value.text)
         IN  CASE Includes(lower, K_thunder) -> Icon("thunder")
               [] Includes(lower, K_blizzard) -> Icon("blizzard")
               [] Includes(lower, K_snow) /\ Includes(lower, K_rain) ->
                      Icon("snow-rain")
               [] Includes(lower, K_freezing_rain) \/ Includes(lower, K_sleet) ->
                      Icon("freezing-rain")
               [] Includes(lower, K_snow) -> Icon("snow")
               [] Includes(lower, K_rain) \/ Includes(lower, K_showers) ->
                      Icon("rain")
               [] Includes(lower, K_fog) \/ Includes(lower, K_mist) -> Icon("fog")
               [] Includes(lower, K_partly_cloudy)
                      \/ Includes(lower, K_partly_sunny) -> Icon("partly-cloudy")
               [] Includes(lower, K_mostly_cloudy) -> Icon("mostly-cloudy")
               [] Includes(lower, K_cloud) \/ Includes(lower, K_overcast) ->
                      Icon("cloudy")
               [] Includes(lower, K_sunny) \/ Includes(lower, K_clear) ->
                      Icon("sunny")
               [] Includes(lower, K_wind) -> Icon("windy")
               [] OTHER -> RawText(value.text)

formatSnowLevel(isMetric, value) ==
    IF value.tag = "null" THEN Placeholder
    ELSE Rounded(MathRound(IF isMetric THEN ftToM(value) ELSE value), "", TRUE)

format(id, unit, value) ==
    CASE id = "temperature" -> formatTemperature(unit = "metric", value)
      [] id = "wind" -> formatWind(unit = "metric", value)
      [] id = "precipitation-chance" -> formatPrecipChance(value)
      [] id = "conditions" -> formatConditions(value)
      [] id = "snow-level" -> formatSnowLevel(unit = "metric", value)

----------------------------------------------------------------------------
(* js/data/forecastTransformer.js: slots *)

\* the start of slot 0: the first period's local date, at its hour rounded
\* down to a multiple of HOURS_PER_SLOT
firstSlotStart(z, firstPeriodTime) ==
    setHours(z, firstPeriodTime,
             (getHours(z, firstPeriodTime) \div HOURS_PER_SLOT) * HOURS_PER_SLOT)

\* the window closed at its end: periodTime <= slotEndTime
slotPeriods_closedEnd(ps, slotStartTime, slotEndTime) ==
    SelectSeq(ps, LAMBDA period :
                     /\ period.startTime >= slotStartTime
                     /\ period.startTime <= slotEndTime)

\* periods.filter(period => periodTime >= slotStartTime && periodTime < slotEndTime)
slotPeriods(ps, slotStartTime, slotEndTime) ==
    SelectSeq(ps, LAMBDA period :
                     /\ period.startTime >= slotStartTime
                     /\ period.startTime < slotEndTime)

\* slots made only up to the slot of the last record
groupIntoSlots_untilLastRecord(z, ps) ==
    IF Len(ps) = 0 THEN <<>>
    ELSE LET slotStart == firstSlotStart(z, ps[1].startTime)
             span == ps[Len(ps)].startTime - slotStart
             count == IF span \div (HOURS_PER_SLOT * HOUR) + 1 < TOTAL_SLOTS
                      THEN span \div (HOURS_PER_SLOT * HOUR) + 1
                      ELSE TOTAL_SLOTS
         IN  [i \in 1..count |->
                LET slotStartTime == slotStart + (i - 1) * HOURS_PER_SLOT * HOUR
                    slotEndTime == slotStartTime + HOURS_PER_SLOT * HOUR
                IN  [startTime |-> slotStartTime,
                     label |-> formatSlotLabel(z, slotStartTime),
                     timeLabel |-> formatTimeLabel(z, slotStartTime),
                     dayLabel |-> formatDayLabel(z, slotStartTime),
                     periods |-> slotPeriods(ps, slotStartTime, slotEndTime)]]

groupIntoSlots(z, ps) ==
    IF Len(ps) = 0 THEN <<>>
    ELSE LET slotStart == firstSlotStart(z, ps[1].startTime)
         IN  [i \in 1..TOTAL_SLOTS |->
                LET slotStartTime == slotStart + (i - 1) * HOURS_PER_SLOT * HOUR
                    slotEndTime == slotStartTime + HOURS_PER_SLOT * HOUR
                IN  [startTime |-> slotStartTime,
                     label |-> formatSlotLabel(z, slotStartTime),
                     timeLabel |-> formatTimeLabel(z, slotStartTime),
                     dayLabel |-> formatDayLabel(z, slotStartTime),
                     periods |-> slotPeriods(ps, slotStartTime, slotEndTime)]]

\* the temperature converted to the unit system before it is aggregated
extractMetricValues_convertsFirst(slots, id, unit) ==
    [i \in DOMAIN slots |->
        LET raw == [k \in DOMAIN slots[i].periods |->
                       extract(id, slots[i].periods[k])]
            vals == [k \in DOMAIN raw |->
                        IF id = "temperature" /\ unit = "metric" /\ IsNumber(raw[k])
                        THEN fToC(raw[k])
                        ELSE raw[k]]
            aggregatedValue == aggregateValues(vals, metricAggregate(id))
        IN  [label |-> slots[i].label,
             value |-> aggregatedValue,
             formattedValue |-> format(id, "imperial", aggregatedValue)]]

extractMetricValues(slots, id, unit) ==
    [i \in DOMAIN slots |->
        LET vals == [k \in DOMAIN slots[i].periods |->
                        extract(id, slots[i].periods[k])]
            aggregatedValue == aggregateValues(vals, metricAggregate(id))
        IN  [label |-> slots[i].label,
             value |-> aggregatedValue,
             formattedValue |-> format(id, unit, aggregatedValue)]]

\* transformForecast(periods, getMetrics(unit))
transformForecast(z, ps, unit) ==
    LET slots == groupIntoSlots(z, ps)
    IN  [slots |-> slots,
         metricData |-> [id \in MetricIdSet |->
                            extractMetricValues(slots, id, unit)]]

\* the functions a call of transformForecast runs: with no slot, the map
\* over the slots calls nothing
transformForecastCalls(ps) ==
    {"groupIntoSlots", "extractMetricValues"}
    \cup (IF Len(ps) = 0 THEN {} ELSE {"extract", "aggregateValues", "format"})

\* main.js renderForecast, for one successful result
renderForecastCalls(ps) ==
    {"getMetrics", "transformForecast"} \cup transformForecastCalls(ps)

----------------------------------------------------------------------------
(* js/api/weatherApi.js: the interval distributor *)

\* An entry is [validTime |-> parts, value |-> v]: parts is the result of
\* validTime.split('/'), its first part given as the instant it denotes:
\* [iso |-> t, rest |-> the parts after the first '/'].

\* the positions at which /PT(\d+)H/ matches
DurationMatches(str) ==
    {i \in 1..(Len(str) - 3) :
        /\ str[i] = "P"
        /\ str[i + 1] = "T"
        /\ DigitRun(str, i + 2) >= 1
        /\ i + 2 + DigitRun(str, i + 2) <= Len(str)
        /\ str[i + 2 + DigitRun(str, i + 2)] = "H"}

\* [threw |-> TRUE] is the TypeError of duration.match on undefined
parseDurationHours(duration) ==
    IF IsNullish(duration) THEN [threw |-> TRUE, hours |-> 0]
    ELSE LET str == duration.text
             hits == DurationMatches(str)
         IN  IF hits = {} THEN [threw |-> FALSE, hours |-> 1]
             ELSE LET i == CHOOSE j \in hits : \A k \in hits : j <= k
                  IN  [threw |-> FALSE,
                       hours |-> ParseDigits(
                           SubSeq(str, i + 2, i + 1 + DigitRun(str, i + 2)))]

EmptyMap == [k \in {} |-> Whole(0)]

\* hourlyMap.get(key) || 0
MapGetOrZero(map, key) == IF key \in DOMAIN map THEN map[key] ELSE Whole(0)

MapSet(map, key, val) ==
    [k \in DOMAIN map \cup {key} |-> IF k = key THEN val ELSE map[k]]

\* hourlyMap.set(hourStart, perHourValue): the last entry overwrites
addHour_overwrite(map, hourStart, perHourValue) ==
    MapSet(map, hourStart, perHourValue)

\* one pass of the inner loop
addHour(map, hourStart, perHourValue) ==
    MapSet(map, hourStart, NumAdd(MapGetOrZero(map, hourStart), perHourValue))

\* for (let h = from; h < hours; h++)
RECURSIVE addHours(_, _, _, _, _)
addHours(map, start, h, hours, perHourValue) ==
    IF h >= hours THEN map
    ELSE addHours(addHour(map, start + h * HOUR, perHourValue),
                  start, h + 1, hours, perHourValue)

\* const [isoStart, duration] = entry.validTime.split('/')
entryDuration(entry) ==
    IF Len(entry.validTime.rest) >= 1 THEN Text(entry.validTime.rest[1])
    ELSE Undefined

\* the whole value given to every hour of the span, not value / hours
distributeEntry_noSplit(map, entry) ==
    LET start == entry.validTime.iso
        parsed == parseDurationHours(entryDuration(entry))
    IN  IF parsed.threw THEN [threw |-> TRUE, map |-> map]
        ELSE [threw |-> FALSE,
              map |-> IF parsed.hours = 0 THEN map
                      ELSE addHours(map, start, 0, parsed.hours,
                                    Coalesce(entry.value, Whole(0)))]

\* the body of the loop over the entries
distributeEntry(map, entry) ==
    LET start == entry.validTime.iso
        parsed == parseDurationHours(entryDuration(entry))
    IN  IF parsed.threw THEN [threw |-> TRUE, map |-> map]
        ELSE [threw |-> FALSE,
              \* "PT0H": the quotient is not finite and the loop never runs
              map |-> IF parsed.hours = 0 THEN map
                      ELSE addHours(map, start, 0, parsed.hours,
                                    NumDivInt(Coalesce(entry.value, Whole(0)),
                                              parsed.hours))]

RECURSIVE distributeFrom(_, _, _)
distributeFrom(map, items, k) ==
    IF k > Len(items) THEN [threw |-> FALSE, map |-> map]
    ELSE LET step == distributeEntry(map, items[k])
         IN  IF step.threw THEN step
             ELSE distributeFrom(step.map, items, k + 1)

\* vals: Undefined, or [tag |-> "array", items |-> the entries]
distributeTimeSeries(vals) ==
    IF IsNullish(vals) THEN [threw |-> FALSE, map |-> EmptyMap]
    ELSE distributeFrom(EmptyMap, vals.items, 1)

----------------------------------------------------------------------------
(* js/api/weatherApi.js: the merge of the interval series into the records *)

\* gridData.<name>?.values
seriesValues(prop) == IF IsNullish(prop) THEN Undefined ELSE prop.values

\* map.get(ts) ?? 0
MapGetCoalesce(map, ts) == IF ts \in DOMAIN map THEN map[ts] ELSE Whole(0)

\* map.get(ts), without the default: a missing hour is left undefined
mergePeriod_noDefault(p, snowMap, precipMap) ==
    [p EXCEPT !.snowfallAmount =
                  IF p.startTime \in DOMAIN snowMap
                  THEN snowMap[p.startTime] ELSE Undefined,
              !.precipAmount =
                  IF p.startTime \in DOMAIN precipMap
                  THEN precipMap[p.startTime] ELSE Undefined]

\* the body of the loop over the periods; ts is the record's start instant
mergePeriod(p, snowMap, precipMap) ==
    [p EXCEPT !.snowfallAmount = MapGetCoalesce(snowMap, p.startTime),
              !.precipAmount = MapGetCoalesce(precipMap, p.startTime)]

\* the records after the call (the code changes them in place); threw: a
\* TypeError left distributeTimeSeries before any record was changed
mergePrecipData(ps, gd) ==
    LET snow == distributeTimeSeries(seriesValues(gd.snowfallAmount))
        precip == distributeTimeSeries(seriesValues(gd.quantitativePrecipitation))
    IN  IF snow.threw \/ precip.threw THEN [threw |-> TRUE, periods |-> ps]
        ELSE [threw |-> FALSE,
              periods |-> [k \in DOMAIN ps |->
                              mergePeriod(ps[k], snow.map, precip.map)]]

----------------------------------------------------------------------------
(* js/api/weatherApi.js: the cache and the fetch of one resort; an instant   *)
(* of Date.now() is a number of minutes                                      *)

CACHE_DURATION == 10

\* config/resorts.js: the first resorts of the list, by id
resorts == <<"mt-baker", "stevens-pass">>

ResortSet == {resorts[i] : i \in DOMAIN resorts}

\* `${lat},${lon}`: every resort of the list has coordinates of its own
getCacheKey(resort) == resort

EmptyCache == [key \in {} |-> Null]

\* the entry is still served when it is exactly CACHE_DURATION old
getCachedData_inclusive(c, key, t) ==
    IF key \in DOMAIN c /\ t - c[key].timestamp <= CACHE_DURATION
    THEN c[key].data
    ELSE Null

\* t: Date.now()
getCachedData(c, key, t) ==
    IF key \in DOMAIN c /\ t - c[key].timestamp < CACHE_DURATION
    THEN c[key].data
    ELSE Null

setCachedData(c, key, data, t) ==
    [k \in DOMAIN c \cup {key} |->
        IF k = key THEN [data |-> data, timestamp |-> t] ELSE c[k]]

\* the merged hourly records of a resort, as the network gives them at t
Forecast(resort, t) == [tag |-> "periods", resort |-> resort, asOf |-> t]

EmptyPeriods == [tag |-> "periods", resort |-> "", asOf |-> 0 - 1]

\* error.message of what the try block can throw
ErrorMessage(kind) ==
    [tag |-> "string",
     text |-> CASE kind = "gridpoint" -> "Failed to fetch grid point"
                [] kind = "forecast" -> "Failed to fetch forecast"
                [] kind = "griddata" -> "Failed to fetch gridpoint data"]

FailureKinds == {"gridpoint", "forecast", "griddata"}

\* One call of fetchResortForecast: where it is (pc: "awaiting" once its
\* first request is sent and until its last response, then "settled"), what
\* became of it (outcome) and the value its promise is fulfilled with.

\* the catch block, with the error swallowed: error stays null
failed_noError(resort, kind) ==
    [pc |-> "settled", outcome |-> kind,
     result |-> [resort |-> resort, periods |-> EmptyPeriods, error |-> Null]]

\* the catch block
failed(resort, kind) ==
    [pc |-> "settled", outcome |-> kind,
     result |-> [resort |-> resort, periods |-> EmptyPeriods,
                 error |-> ErrorMessage(kind)]]

\* the end of the try block
succeeded(resort, data) ==
    [pc |-> "settled", outcome |-> "ok",
     result |-> [resort |-> resort, periods |-> data, error |-> Null]]

\* the call up to its first await: the cache is read, and on a miss the
\* request for the grid point is sent
fetchResortForecast(c, resort, t) ==
    LET cached == getCachedData(c, getCacheKey(resort), t)
    IN  IF cached # Null
        THEN [pc |-> "settled", outcome |-> "cached",
              result |-> [resort |-> resort, periods |-> cached, error |-> Null]]
        ELSE [pc |-> "awaiting", outcome |-> "pending", result |-> Null]

\* results.map(...) of fetchAllForecasts: every promise is fulfilled
settledResults(calls) ==
    [tag |-> "array", items |-> [i \in DOMAIN resorts |-> calls[resorts[i]].result]]

----------------------------------------------------------------------------
(* js/main.js: what renderForecast puts into the container *)

Failed(result) == result.error # Null
Successful(result) == result.error = Null

renderView(results, unit) ==
    [kind |-> "forecast", unit |-> unit,
     errors |-> SelectSeq(results.items, Failed),
     table |-> SelectSeq(results.items, Successful)]

----------------------------------------------------------------------------
(* js/ui/tableRenderer.js: the combined table; '' is the absence of a class *)

getTemperatureClass(temp) ==
    IF temp.tag = "null" THEN ""
    ELSE IF NumLe(temp, Whole(20)) THEN "temp-freezing"
    ELSE IF NumLe(temp, Whole(32)) THEN "temp-cold"
    ELSE IF NumLe(temp, Whole(45)) THEN "temp-cool"
    ELSE "temp-mild"

\* every comparison of undefined with a number is false
getWindClass(speed) ==
    IF speed.tag = "null" THEN ""
    ELSE IF speed.tag = "undefined" THEN "wind-light"
    ELSE IF NumLe(Whole(40), speed) THEN "wind-extreme"
    ELSE IF NumLe(Whole(25), speed) THEN "wind-high"
    ELSE IF NumLe(Whole(15), speed) THEN "wind-moderate"
    ELSE "wind-light"

getConditionsClass(conditions) ==
    IF ~Truthy(conditions) THEN ""
    ELSE LET lower == ToLowerCase(conditions.text)
         IN  IF Includes(lower, K_snow) THEN "condition-snow"
             ELSE IF Includes(lower, K_rain) THEN "condition-rain"
             ELSE IF Includes(lower, K_cloud) THEN "condition-cloudy"
             ELSE IF Includes(lower, K_sunny) \/ Includes(lower, K_clear)
                  THEN "condition-sunny"
             ELSE ""

\* value?.speed
OptionalSpeed(value) == IF IsNullish(value) THEN Undefined ELSE value.speed

getCellClass(metricId, value) ==
    CASE metricId = "temperature" -> getTemperatureClass(value)
      [] metricId = "wind" -> getWindClass(OptionalSpeed(value))
      [] metricId = "conditions" -> getConditionsClass(value)
      [] OTHER -> ""

\* index > 0 && slots[index].dayLabel !== slots[index - 1].dayLabel
DayStart(slots, i) == i > 1 /\ slots[i].dayLabel # slots[i - 1].dayLabel

\* the first header row: one cell per run of slots of the same day, its
\* colSpan the length of the run
RECURSIVE DayCells(_, _)
DayCells(slots, i) ==
    IF i > Len(slots) THEN <<>>
    ELSE LET after == {j \in i + 1..Len(slots) :
                          slots[j].dayLabel # slots[i].dayLabel}
             next == IF after = {} THEN Len(slots) + 1
                     ELSE CHOOSE j \in after : \A k \in after : j <= k
         IN  <<[text |-> slots[i].dayLabel, colSpan |-> next - i]>>
             \o DayCells(slots, next)

\* the second header row: one cell per slot of the first resort
TimeCells(slots) ==
    [i \in DOMAIN slots |->
        [text |-> slots[i].timeLabel, dayStart |-> DayStart(slots, i)]]

\* the row of one metric of one resort: one cell per entry of its metricData
MetricRow(transformedData, id) ==
    [metric |-> id,
     cells |-> [i \in DOMAIN transformedData.metricData[id] |->
                  [text |-> transformedData.metricData[id][i].formattedValue,
                   class |-> getCellClass(id, transformedData.metricData[id][i].value),
                   dayStart |-> DayStart(transformedData.slots, i)]]]

\* resortData: a non-empty sequence of [resort, transformedData]
createCombinedForecastTable(resortData) ==
    LET firstData == resortData[1].transformedData
    IN  [dayRow |-> DayCells(firstData.slots, 1),
         timeRow |-> TimeCells(firstData.slots),
         body |-> [k \in DOMAIN resortData |->
                     [resort |-> resortData[k].resort,
                      colSpan |-> Len(firstData.slots) + 1,
                      rows |-> [m \in DOMAIN MetricIds |->
                                  MetricRow(resortData[k].transformedData,
                                            MetricIds[m])]]]]

\* main.js renderForecast with the results given: the error elements, then
\* the combined table of the successful results, if there is one
renderContainer(z, results, unit) ==
    LET failedResults == SelectSeq(results.items, Failed)
        successfulResults == SelectSeq(results.items, Successful)
        resortData ==
            [k \in DOMAIN successfulResults |->
                [resort |-> successfulResults[k].resort,
                 transformedData |->
                     transformForecast(z, successfulResults[k].periods, unit)]]
    IN  [kind |-> "container",
         unit |-> unit,
         errors |-> [k \in DOMAIN failedResults |->
                       [resort |-> failedResults[k].resort,
                        message |-> failedResults[k].error]],
         tables |-> IF Len(successfulResults) > 0
                    THEN <<createCombinedForecastTable(resortData)>>
                    ELSE <<>>]

----------------------------------------------------------------------------
(* Inputs *)

MaxPeriods == 2

\* the host's time zone: no offset change, or clocks set back or forward by
\* an hour at 02:00 local time on the Sunday of instant 0
TimeZones ==
    {[kind |-> "none", at |-> 0],
     [kind |-> "back", at |-> 2 * HOUR],
     [kind |-> "forward", at |-> 2 * HOUR]}

PeriodTimes ==
    {0, 3 * HOUR, 4 * HOUR, 5 * HOUR, 5 * HOUR + 30, 120 * HOUR, 124 * HOUR}

\* the forecast fields of an hourly record, apart from its start time
PeriodFields ==
    {[temperature |-> Whole(30),
      windSpeed |-> Text(<<"1", "5", " ", "m", "p", "h">>),
      windDirection |-> Text(<<"N", "W">>),
      probabilityOfPrecipitation |-> [tag |-> "object", value |-> Whole(40)],
      shortForecast |-> Text(<<"S", "n", "o", "w">>)],
     [temperature |-> Whole(37),
      windSpeed |-> Text(<<"5", " ", "t", "o", " ", "1", "0", " ", "m", "p", "h">>),
      windDirection |-> Text(<<>>),
      probabilityOfPrecipitation |-> [tag |-> "object", value |-> Null],
      shortForecast |-> Text(<<"R", "a", "i", "n", " ", "S", "h", "o", "w", "e", "r", "s">>)],
     [temperature |-> Null,
      windSpeed |-> Undefined,
      windDirection |-> Undefined,
      probabilityOfPrecipitation |-> Undefined,
      shortForecast |-> Undefined]}

Period(t, f) ==
    [startTime |-> t,
     temperature |-> f.temperature,
     windSpeed |-> f.windSpeed,
     windDirection |-> f.windDirection,
     probabilityOfPrecipitation |-> f.probabilityOfPrecipitation,
     shortForecast |-> f.shortForecast]

NoTransform == [slots |-> <<>>, metricData |-> [id \in MetricIdSet |-> <<>>]]
NoAggregate == [done |-> FALSE, mode |-> "undefined", value |-> Null]
NoSeries == [tag |-> "array", items |-> <<>>]
NoDistribute == [threw |-> FALSE, map |-> EmptyMap]
NoRun == [by |-> "none", fns |-> {}]
NoCell ==
    [done |-> FALSE, id |-> "", extracted |-> Null, value |-> Null,
     imperial |-> Placeholder, metric |-> Placeholder]
NoGridData == [snowfallAmount |-> Undefined, quantitativePrecipitation |-> Undefined]
NoMerge == [done |-> FALSE, threw |-> FALSE, periods |-> <<>>]

\* the state of the parts a specification leaves alone
IdleRegistry == record = Null /\ cell = NoCell
IdleMerge == gridData = NoGridData /\ merged = NoMerge
IdleApp ==
    /\ now = 0
    /\ cache = EmptyCache
    /\ loads = <<>>
    /\ cachedResults = Null
    /\ lastUpdate = Null
    /\ view = [kind |-> "initial"]

----------------------------------------------------------------------------
(* The render loop of one resort: its hourly records arrive, the table is   *)
(* rendered, and the unit toggle renders it again.                          *)

Init ==
    /\ pc = "fetch"
    /\ tz \in TimeZones
    /\ periods = <<>>
    /\ unitSystem = "imperial"
    /\ transformed = NoTransform
    /\ values = <<>>
    /\ aggregated = NoAggregate
    /\ series = NoSeries
    /\ distributed = NoDistribute
    /\ ran = NoRun
    /\ IdleRegistry
    /\ IdleMerge
    /\ IdleApp

\* the next hourly record of the forecast (ascending by start time)
FetchPeriod ==
    /\ pc = "fetch"
    /\ Len(periods) < MaxPeriods
    /\ \E t \in PeriodTimes, f \in PeriodFields :
          /\ IF periods = <<>> THEN TRUE
             ELSE periods[Len(periods)].startTime < t
          /\ periods' = Append(periods, Period(t, f))
    /\ UNCHANGED <<pc, tz, unitSystem, transformed, values, aggregated, series,
                   distributed,
                   ran, registryVars, mergeVars, appVars>>

\* a transform that takes the first record off the array it is given
renderForecast_shiftsRecords ==
    /\ pc = "fetch"
    /\ pc' = "rendered"
    /\ transformed' = transformForecast(tz, periods, unitSystem)
    /\ periods' = IF periods = <<>> THEN periods ELSE Tail(periods)
    /\ ran' = [by |-> "loadForecasts", fns |-> renderForecastCalls(periods)]
    /\ UNCHANGED <<tz, unitSystem, values, aggregated, series,
                   distributed, registryVars, mergeVars, appVars>>

\* loadForecasts: the results are in, renderForecast transforms them
renderForecast ==
    /\ pc = "fetch"
    /\ pc' = "rendered"
    /\ transformed' = transformForecast(tz, periods, unitSystem)
    /\ ran' = [by |-> "loadForecasts", fns |-> renderForecastCalls(periods)]
    /\ UNCHANGED <<tz, periods, unitSystem, values, aggregated, series,
                   distributed, registryVars, mergeVars, appVars>>

toggleUnits ==
    /\ pc = "rendered"
    /\ unitSystem' = IF unitSystem = "imperial" THEN "metric" ELSE "imperial"
    /\ transformed' = transformForecast(tz, periods, unitSystem')
    /\ ran' = [by |-> "toggleUnits", fns |-> renderForecastCalls(periods)]
    /\ UNCHANGED <<pc, tz, periods, values, aggregated, series, distributed,
                   registryVars, mergeVars, appVars>>

Next == FetchPeriod \/ renderForecast \/ toggleUnits

Spec == Init /\ [][Next]_vars

----------------------------------------------------------------------------
(* One slot: the values extracted from its records, then aggregateValues.   *)

MaxValues == 4
MaxWindValues == 3

WindFields ==
    {[windSpeed |-> ws, windDirection |-> wd] :
        ws \in {Undefined, Text(<<"1", "5", " ", "m", "p", "h">>), Text(<<"5", " ", "t", "o", " ", "1", "0", " ", "m", "p", "h">>)},
        wd \in {Undefined, Text(<<"N", "W">>), Text(<<"S">>)}}

SlotValues ==
    {Null, Undefined}
    \cup {Whole(0 - 5), Whole(0), Whole(2), Whole(3)}
    \cup {Text(<<"S", "n", "o", "w">>), Text(<<"R", "a", "i", "n">>), Text(<<"F", "o", "g">>)}
    \cup {extractWind(f) : f \in WindFields}
    \cup {extractWindDirection(f) : f \in WindFields}

\* the shapes a metric's extraction yields are its own and null/undefined
SameShape(vals, v) ==
    \/ IsNullish(v)
    \/ \A k \in DOMAIN vals : IsNullish(vals[k]) \/ vals[k].tag = v.tag

InitAggregate ==
    /\ pc = "extract"
    /\ tz = [kind |-> "none", at |-> 0]
    /\ periods = <<>>
    /\ unitSystem = "imperial"
    /\ transformed = NoTransform
    /\ values = <<>>
    /\ aggregated = NoAggregate
    /\ series = NoSeries
    /\ distributed = NoDistribute
    /\ ran = NoRun
    /\ IdleRegistry
    /\ IdleMerge
    /\ IdleApp

\* slot.periods.map(period => metric.extract(period)), one value at a time
ExtractValue ==
    /\ pc = "extract"
    /\ \E v \in SlotValues :
          /\ SameShape(values, v)
          /\ Len(values) < (IF IsWind(v) THEN MaxWindValues ELSE MaxValues)
          /\ values' = Append(values, v)
    /\ UNCHANGED <<pc, tz, periods, unitSystem, transformed, aggregated, series,
                   distributed,
                   ran, registryVars, mergeVars, appVars>>

Aggregate ==
    /\ pc = "extract"
    /\ pc' = "aggregated"
    /\ \E mode \in {"sum", "undefined"} :
          aggregated' = [done |-> TRUE, mode |-> mode,
                         value |-> aggregateValues(values, mode)]
    /\ UNCHANGED <<tz, periods, unitSystem, transformed, values, series,
                   distributed,
                   ran, registryVars, mergeVars, appVars>>

NextAggregate == ExtractValue \/ Aggregate

SpecAggregate == InitAggregate /\ [][NextAggregate]_vars

----------------------------------------------------------------------------
(* One interval series: its entries, then distributeTimeSeries.             *)

MaxEntries == 2

EntryStarts == {0, HOUR, HOUR + 30}

\* the parts of validTime after the first '/': none, or one duration string
EntryRests ==
    {<<>>, <<<<>>>>, <<<<"P", "T", "1", "H">>>>, <<<<"P", "T", "2", "H">>>>, <<<<"P", "T", "3", "H">>>>, <<<<"P", "T", "0", "H">>>>, <<<<"P", "1", "D">>>>}

EntryValues == {Null, Whole(6), Whole(9)}

Entries ==
    {[validTime |-> [iso |-> t, rest |-> r], value |-> v] :
        t \in EntryStarts, r \in EntryRests, v \in EntryValues}

InitDistribute ==
    /\ pc = "series"
    /\ tz = [kind |-> "none", at |-> 0]
    /\ periods = <<>>
    /\ unitSystem = "imperial"
    /\ transformed = NoTransform
    /\ values = <<>>
    /\ aggregated = NoAggregate
    /\ series \in {Undefined, NoSeries}
    /\ distributed = NoDistribute
    /\ ran = NoRun
    /\ IdleRegistry
    /\ IdleMerge
    /\ IdleApp

\* the next entry of gridData.<name>.values
SeriesEntry ==
    /\ pc = "series"
    /\ ~IsNullish(series)
    /\ Len(series.items) < MaxEntries
    /\ \E e \in Entries :
          series' = [series EXCEPT !.items = Append(@, e)]
    /\ UNCHANGED <<pc, tz, periods, unitSystem, transformed, values, aggregated,
                   distributed,
                   ran, registryVars, mergeVars, appVars>>

Distribute ==
    /\ pc = "series"
    /\ pc' = "distributed"
    /\ distributed' = distributeTimeSeries(series)
    /\ UNCHANGED <<tz, periods, unitSystem, transformed, values, aggregated,
                   series,
                   ran, registryVars, mergeVars, appVars>>

NextDistribute == SeriesEntry \/ Distribute

SpecDistribute == InitDistribute /\ [][NextDistribute]_vars

----------------------------------------------------------------------------
(* One resort's responses: its hourly records and its raw gridpoint data,   *)
(* then mergePrecipData.                                                    *)

MaxRecords == 2
MaxGridEntries == 1

RecordTimes == {0, HOUR, HOUR + 30}

\* an hourly record as the forecast gives it: the amounts are not set yet
HourlyRecord(t) ==
    [startTime |-> t,
     temperature |-> Whole(30),
     shortForecast |-> Text(<<"S", "n", "o", "w">>),
     snowfallAmount |-> Undefined,
     precipAmount |-> Undefined]

GridEntries ==
    {[validTime |-> [iso |-> t, rest |-> r], value |-> v] :
        t \in {0, HOUR + 30},
        r \in {<<>>, <<<<"P", "T", "2", "H">>>>},
        v \in {Null, Whole(6)}}

\* a property of the gridpoint data: missing, without values, or a series
GridProperties ==
    {Undefined, [tag |-> "object", values |-> Undefined],
     [tag |-> "object", values |-> NoSeries]}

GridNames == {"snowfallAmount", "quantitativePrecipitation"}

InitMerge ==
    /\ pc = "responses"
    /\ tz = [kind |-> "none", at |-> 0]
    /\ periods = <<>>
    /\ unitSystem = "imperial"
    /\ transformed = NoTransform
    /\ values = <<>>
    /\ aggregated = NoAggregate
    /\ series = NoSeries
    /\ distributed = NoDistribute
    /\ ran = NoRun
    /\ IdleRegistry
    /\ gridData \in [GridNames -> GridProperties]
    /\ merged = NoMerge
    /\ IdleApp

\* the next record of data.properties.periods (ascending by start time)
HourlyPeriod ==
    /\ pc = "responses"
    /\ Len(periods) < MaxRecords
    /\ \E t \in RecordTimes :
          /\ IF periods = <<>> THEN TRUE
             ELSE periods[Len(periods)].startTime < t
          /\ periods' = Append(periods, HourlyRecord(t))
    /\ UNCHANGED <<pc, tz, unitSystem, transformed, values, aggregated, series,
                   distributed, ran, registryVars, mergeVars, appVars>>

\* the next entry of one of the two interval series
GridEntry ==
    /\ pc = "responses"
    /\ \E name \in GridNames, e \in GridEntries :
          /\ ~IsNullish(seriesValues(gridData[name]))
          /\ Len(gridData[name].values.items) < MaxGridEntries
          /\ gridData' = [gridData EXCEPT ![name].values.items = Append(@, e)]
    /\ UNCHANGED <<pc, tz, periods, unitSystem, transformed, values, aggregated,
                   series, distributed, ran, registryVars, merged, appVars>>

\* fetchResortForecast, step 3
Merge ==
    /\ pc = "responses"
    /\ pc' = "merged"
    /\ merged' = [done |-> TRUE,
                  threw |-> mergePrecipData(periods, gridData).threw,
                  periods |-> mergePrecipData(periods, gridData).periods]
    /\ UNCHANGED <<tz, periods, unitSystem, transformed, values, aggregated,
                   series, distributed, ran, registryVars, gridData, appVars>>

NextMerge == HourlyPeriod \/ GridEntry \/ Merge

SpecMerge == InitMerge /\ [][NextMerge]_vars

----------------------------------------------------------------------------
(* One hourly record alone in a slot: every metric of the registry extracts *)
(* its value, which is aggregated and formatted under both unit systems.    *)

Temperatures ==
    {Null, Undefined, Whole(0 - 10), Whole(31), Whole(32), Num(65, 2),
     Whole(33), Whole(40), Whole(57), Whole(58), Whole(120)}

ShortForecasts ==
    {Undefined,
     Text(<<>>),
     Text(<<"T", "h", "u", "n", "d", "e", "r", "s", "t", "o", "r", "m", "s">>),
     Text(<<"B", "l", "i", "z", "z", "a", "r", "d">>),
     Text(<<"R", "a", "i", "n", " ", "A", "n", "d", " ", "S", "n", "o", "w">>),
     Text(<<"F", "r", "e", "e", "z", "i", "n", "g", " ", "R", "a", "i", "n">>),
     Text(<<"S", "l", "e", "e", "t">>),
     Text(<<"S", "n", "o", "w">>),
     Text(<<"S", "n", "o", "w", " ", "S", "h", "o", "w", "e", "r", "s">>),
     Text(<<"R", "a", "i", "n", " ", "S", "h", "o", "w", "e", "r", "s">>),
     Text(<<"P", "a", "t", "c", "h", "y", " ", "F", "o", "g">>),
     Text(<<"P", "a", "r", "t", "l", "y", " ", "C", "l", "o", "u", "d", "y">>),
     Text(<<"P", "a", "r", "t", "l", "y", " ", "S", "u", "n", "n", "y">>),
     Text(<<"M", "o", "s", "t", "l", "y", " ", "C", "l", "o", "u", "d", "y">>),
     Text(<<"O", "v", "e", "r", "c", "a", "s", "t">>),
     Text(<<"M", "o", "s", "t", "l", "y", " ", "S", "u", "n", "n", "y">>),
     Text(<<"C", "l", "e", "a", "r">>),
     Text(<<"W", "i", "n", "d", "y">>),
     Text(<<"S", "u", "n", "n", "y", " ", "A", "n", "d", " ", "W", "i", "n", "d", "y">>),
     Text(<<"H", "a", "z", "e">>),
     Text(<<"B", "l", "i", "z", "z", "a", "r", "d", " ", "A", "n", "d", " ", "T", "h", "u", "n", "d", "e", "r">>),
     Text(<<"F", "r", "e", "e", "z", "i", "n", "g", " ", "R", "a", "i", "n", " ", "A", "n", "d", " ", "S", "n", "o", "w">>),
     Text(<<"M", "I", "S", "T">>)}

RegistryRecords ==
    {[startTime |-> 0,
      temperature |-> t,
      windSpeed |-> Text(<<"1", "5", " ", "m", "p", "h">>),
      windDirection |-> Text(<<"N", "W">>),
      probabilityOfPrecipitation |-> [tag |-> "object", value |-> Whole(40)],
      shortForecast |-> sf] :
        t \in Temperatures, sf \in ShortForecasts}

\* records of which any subset of the forecast fields is missing or null
Absent == {Null, Undefined}

SparseRecords ==
    {[startTime |-> 0,
      temperature |-> t,
      windSpeed |-> ws,
      windDirection |-> Undefined,
      probabilityOfPrecipitation |-> pop,
      shortForecast |-> sf] :
        t \in Absent \cup {Whole(30)},
        ws \in Absent \cup {Text(<<"c", "a", "l", "m">>)},
        pop \in Absent \cup {[tag |-> "object", value |-> Null],
                             [tag |-> "object", value |-> Undefined]},
        sf \in Absent \cup {Text(<<"S", "n", "o", "w">>)}}

\* a shortForecast that is no text: a boolean, a number, an object
OtherShapes ==
    {[tag |-> "boolean", val |-> TRUE],
     [tag |-> "boolean", val |-> FALSE],
     Whole(0),
     Whole(3),
     [tag |-> "object"]}

ShapedRecords ==
    {[startTime |-> 0,
      temperature |-> Whole(30),
      windSpeed |-> Text(<<"1", "5", " ", "m", "p", "h">>),
      windDirection |-> Text(<<"N", "W">>),
      probabilityOfPrecipitation |-> [tag |-> "object", value |-> Whole(40)],
      shortForecast |-> sf] :
        sf \in OtherShapes}

InitRegistry ==
    /\ pc = "record"
    /\ tz = [kind |-> "none", at |-> 0]
    /\ periods = <<>>
    /\ unitSystem = "imperial"
    /\ transformed = NoTransform
    /\ values = <<>>
    /\ aggregated = NoAggregate
    /\ series = NoSeries
    /\ distributed = NoDistribute
    /\ ran = NoRun
    /\ record \in RegistryRecords \cup SparseRecords \cup ShapedRecords
    /\ cell = NoCell
    /\ IdleMerge
    /\ IdleApp

\* extractMetricValues over the one slot of the record, for one metric and
\* both unit systems; when metric.format throws, the call returns nothing
Cell ==
    /\ pc = "record"
    /\ \E id \in MetricIdSet :
          LET slot == <<[label |-> formatSlotLabel(tz, record.startTime),
                         periods |-> <<record>>]>>
              imperial == extractMetricValues(slot, id, "imperial")[1]
              metric == extractMetricValues(slot, id, "metric")[1]
          IN  IF imperial.formattedValue = Thrown
              THEN /\ pc' = "threw"
                   /\ cell' = [cell EXCEPT !.id = id]
              ELSE /\ pc' = "cell"
                   /\ cell' = [done |-> TRUE,
                                id |-> id,
                                extracted |-> extract(id, record),
                                value |-> imperial.value,
                                imperial |-> imperial.formattedValue,
                                metric |-> metric.formattedValue]
    /\ UNCHANGED <<tz, periods, unitSystem, transformed, values, aggregated,
                   series, distributed, ran, record, mergeVars, appVars>>

NextRegistry == Cell

SpecRegistry == InitRegistry /\ [][NextRegistry]_vars

----------------------------------------------------------------------------
(* The application: loadForecasts runs (from init, the refresh timer or the *)
(* refresh button), the responses of the network, the unit toggle and the   *)
(* passing of time. A handler runs to its next await before another starts. *)

MaxLoads == 2

\* the instants at which something happens, in minutes
ClockTimes == {0, 9, 10}

InitApp ==
    /\ pc = "app"
    /\ tz = [kind |-> "none", at |-> 0]
    /\ periods = <<>>
    /\ unitSystem = "imperial"
    /\ transformed = NoTransform
    /\ values = <<>>
    /\ aggregated = NoAggregate
    /\ series = NoSeries
    /\ distributed = NoDistribute
    /\ ran = NoRun
    /\ IdleRegistry
    /\ IdleMerge
    /\ IdleApp

\* a run that completed before the last completed one: the model keeps the
\* calls and results of the last completed run only
Forgotten ==
    [pc |-> "forgotten",
     calls |-> [r \in ResortSet |->
                  [pc |-> "settled", outcome |-> "forgotten", result |-> Null]],
     results |-> Null]

AllSettled(load) == \A r \in ResortSet : load.calls[r].pc = "settled"

\* loadForecasts after its await: once every call of run l has settled (as
\* the list ls of runs has it), the results are stored and rendered;
\* until then the container shows v
Resume(ls, l, v) ==
    IF AllSettled(ls[l])
    THEN /\ loads' = [k \in DOMAIN ls |->
                         IF k = l
                         THEN [ls[l] EXCEPT !.pc = "done",
                                            !.results = settledResults(ls[l].calls)]
                         ELSE IF ls[k].pc = "done" THEN Forgotten
                         ELSE ls[k]]
         /\ cachedResults' = settledResults(ls[l].calls)
         /\ view' = renderView(settledResults(ls[l].calls), unitSystem)
         /\ lastUpdate' = [tag |-> "date", time |-> now]
    ELSE /\ loads' = ls
         /\ view' = v
         /\ UNCHANGED <<cachedResults, lastUpdate>>

\* loadForecasts up to its await: showLoading, then fetchAllForecasts calls
\* fetchResortForecast for every resort
loadForecasts ==
    /\ pc = "app"
    /\ Len(loads) < MaxLoads
    /\ LET calls == [r \in ResortSet |-> fetchResortForecast(cache, r, now)]
           load == [pc |-> "fetching", calls |-> calls, results |-> Null]
       IN  Resume(Append(loads, load), Len(loads) + 1, [kind |-> "loading"])
    /\ UNCHANGED <<pc, tz, periods, unitSystem, transformed, values, aggregated,
                   series, distributed, ran, registryVars, mergeVars, now, cache>>

\* the rest of one fetchResortForecast call: the response of fetchGridPoint,
\* on success the two requests of step 2 and their responses, then the merge
\* and the write to the cache. Between its awaits the call reads and writes
\* nothing but its own locals, so the awaits are taken in one step.
Responses ==
    /\ pc = "app"
    /\ \E l \in DOMAIN loads, r \in ResortSet,
          outcome \in {"ok"} \cup FailureKinds :
          /\ loads[l].calls[r].pc = "awaiting"
          /\ cache' = IF outcome = "ok"
                      THEN setCachedData(cache, getCacheKey(r), Forecast(r, now), now)
                      ELSE cache
          /\ Resume([loads EXCEPT ![l].calls[r] =
                        IF outcome = "ok"
                        THEN succeeded(r, Forecast(r, now))
                        ELSE failed(r, outcome)],
                    l, view)
    /\ UNCHANGED <<pc, tz, periods, unitSystem, transformed, values, aggregated,
                   series, distributed, ran, registryVars, mergeVars, now>>

\* the toggle taken for a refresh: it also stamps the time of the update
unitToggleClick_stampsUpdate ==
    /\ pc = "app"
    /\ Len(loads) >= 1
    /\ unitSystem' = IF unitSystem = "imperial" THEN "metric" ELSE "imperial"
    /\ view' = IF cachedResults = Null THEN view
               ELSE renderView(cachedResults, unitSystem')
    /\ lastUpdate' = [tag |-> "date", time |-> now]
    /\ UNCHANGED <<pc, tz, periods, transformed, values, aggregated, series,
                   distributed, ran, registryVars, mergeVars, now, cache, loads,
                   cachedResults>>

\* toggleUnits as the click handler of #unit-toggle, registered by init after
\* its call of loadForecasts
unitToggleClick ==
    /\ pc = "app"
    /\ Len(loads) >= 1
    /\ unitSystem' = IF unitSystem = "imperial" THEN "metric" ELSE "imperial"
    /\ view' = IF cachedResults = Null THEN view
               ELSE renderView(cachedResults, unitSystem')
    /\ UNCHANGED <<pc, tz, periods, transformed, values, aggregated, series,
                   distributed, ran, registryVars, mergeVars, now, cache, loads,
                   cachedResults, lastUpdate>>

Tick ==
    /\ pc = "app"
    /\ \E t \in ClockTimes : t > now /\ now' = t
    /\ UNCHANGED <<pc, tz, periods, unitSystem, transformed, values, aggregated,
                   series, distributed, ran, registryVars, mergeVars, cache,
                   loads, cachedResults, lastUpdate, view>>

NextApp ==
    loadForecasts \/ Responses \/ unitToggleClick \/ Tick

SpecApp == InitApp /\ [][NextApp]_vars

----------------------------------------------------------------------------
(* The container after a load: the results of the resorts are in, the       *)
(* combined table is built from them, and the unit toggle builds it again.  *)

\* the hourly records a successful fetch of one resort can give
TableForecasts ==
    {<<>>} \cup
    {<<Period(t, f)>> : t \in {3 * HOUR, 5 * HOUR}, f \in PeriodFields} \cup
    {<<Period(3 * HOUR, f), Period(23 * HOUR, f)>> : f \in PeriodFields}

\* the result of fetchResortForecast for one resort
TableResults(resort) ==
    {[resort |-> resort, periods |-> ps, error |-> Null] : ps \in TableForecasts}
    \cup {[resort |-> resort, periods |-> <<>>, error |-> ErrorMessage("forecast")]}

InitTable ==
    /\ pc = "results"
    /\ tz = [kind |-> "none", at |-> 0]
    /\ periods = <<>>
    /\ unitSystem = "imperial"
    /\ transformed = NoTransform
    /\ values = <<>>
    /\ aggregated = NoAggregate
    /\ series = NoSeries
    /\ distributed = NoDistribute
    /\ ran = NoRun
    /\ IdleRegistry
    /\ IdleMerge
    /\ now = 0
    /\ cache = EmptyCache
    /\ loads = <<>>
    /\ \E first \in TableResults(resorts[1]), second \in TableResults(resorts[2]) :
          cachedResults = [tag |-> "array", items |-> <<first, second>>]
    /\ lastUpdate = Null
    /\ view = [kind |-> "loading"]

\* loadForecasts after its await
ShowForecast ==
    /\ pc = "results"
    /\ pc' = "table"
    /\ view' = renderContainer(tz, cachedResults, unitSystem)
    /\ lastUpdate' = [tag |-> "date", time |-> now]
    /\ UNCHANGED <<tz, periods, unitSystem, transformed, values, aggregated,
                   series, distributed, ran, registryVars, mergeVars,
                   now, cache, loads, cachedResults>>

\* toggleUnits
ToggleTable ==
    /\ pc = "table"
    /\ unitSystem' = IF unitSystem = "imperial" THEN "metric" ELSE "imperial"
    /\ view' = renderContainer(tz, cachedResults, unitSystem')
    /\ UNCHANGED <<pc, tz, periods, transformed, values, aggregated, series,
                   distributed, ran, registryVars, mergeVars,
                   now, cache, loads, cachedResults, lastUpdate>>

NextTable == ShowForecast \/ ToggleTable

SpecTable == InitTable /\ [][NextTable]_vars

----------------------------------------------------------------------------
(* Properties of the slot grid (checked under Spec) *)

Rendered == pc = "rendered" /\ Len(periods) >= 1

\* period p is one of the records of slot i
InSlot(i, p) ==
    \E j \in DOMAIN transformed.slots[i].periods :
        transformed.slots[i].periods[j] = p

SlotsOf(p) == {i \in DOMAIN transformed.slots : InSlot(i, p)}

\* the values of slot i's records under metric id, in record order
SlotExtracts(i, id) ==
    [k \in DOMAIN transformed.slots[i].periods |->
        extract(id, transformed.slots[i].periods[k])]

\* C1: for every non-empty hourly record sequence (of any length, 1
\* included) the transform yields exactly 30 slots, and for every metric a
\* metricData sequence of exactly 30 entries, entry i being that of slot i
\* (its label, and the aggregate of slot i's records).
C1_ThirtySlots ==
    Rendered =>
        /\ Len(transformed.slots) = 30
        /\ \A id \in MetricIdSet :
              /\ Len(transformed.metricData[id]) = 30
              /\ \A i \in 1..30 :
                    /\ transformed.metricData[id][i].label
                          = transformed.slots[i].label
                    /\ transformed.metricData[id][i].value
                          = aggregateValues(SlotExtracts(i, id),
                                            metricAggregate(id))

\* a single record already yields the 30 slots
C1_Witness ==
    /\ pc = "rendered"
    /\ Len(periods) = 1
    /\ Len(transformed.slots) = 30
    /\ Len(transformed.metricData["temperature"]) = 30

\* C2: a record is a member of slot i if and only if its start t satisfies
\* slotStart_i <= t < slotStart_i + 4h; so every record with
\* slotStart_0 <= t < slotStart_0 + 120h is a member of exactly one slot, the
\* one whose window holds t, and a record outside that range of no slot.
C2_SlotMembership ==
    Rendered =>
        LET s0 == transformed.slots[1].startTime
        IN  \A k \in DOMAIN periods :
                LET t == periods[k].startTime
                IN  /\ \A i \in DOMAIN transformed.slots :
                          InSlot(i, periods[k])
                              <=> /\ transformed.slots[i].startTime <= t
                                  /\ t < transformed.slots[i].startTime + 4 * HOUR
                    /\ (s0 <= t /\ t < s0 + 120 * HOUR)
                          => SlotsOf(periods[k]) = {(t - s0) \div (4 * HOUR) + 1}
                    /\ ~(s0 <= t /\ t < s0 + 120 * HOUR)
                          => SlotsOf(periods[k]) = {}

\* a record exactly at the start of slot 0 is in slot 0 alone, and one
\* exactly 120 hours later is in no slot
C2_Witness ==
    /\ Rendered
    /\ Len(transformed.slots) = 30
    /\ \E k \in DOMAIN periods :
          /\ periods[k].startTime = transformed.slots[1].startTime
          /\ SlotsOf(periods[k]) = {1}
    /\ \E k \in DOMAIN periods :
          /\ periods[k].startTime = transformed.slots[30].startTime + 4 * HOUR
          /\ SlotsOf(periods[k]) = {}

\* C3: slot 0 starts on the first record's local calendar date at hour
\* floor(h/4)*4 with minutes zero (h: the first record's local hour), so
\* slotStart_0 <= firstRecordTime < slotStart_0 + 4h and the first record is
\* a member of slot 0; and slotStart_i = slotStart_0 + i*4 hours.
C3_SlotZeroHoldsFirstRecord ==
    Rendered =>
        LET first == periods[1].startTime
            s0 == transformed.slots[1].startTime
        IN  /\ LocalDate(tz, s0) = LocalDate(tz, first)
            /\ getHours(tz, s0) = (getHours(tz, first) \div 4) * 4
            /\ LocalTime(tz, s0) % HOUR = 0
            /\ s0 <= first
            /\ first < s0 + 4 * HOUR
            /\ InSlot(1, periods[1])
            /\ \A i \in DOMAIN transformed.slots :
                  transformed.slots[i].startTime = s0 + (i - 1) * 4 * HOUR

\* C5: for every slot that holds no record and every metric of the
\* registry, the aggregated value is null and the formatted value is the
\* placeholder.
C5_EmptySlotNull ==
    Rendered =>
        \A i \in DOMAIN transformed.slots :
            transformed.slots[i].periods = <<>>
                => \A id \in MetricIdSet :
                      /\ transformed.metricData[id][i].value = Null
                      /\ transformed.metricData[id][i].formattedValue = Placeholder

\* a grid with an empty slot next to a slot whose temperature is a number
C5_Witness ==
    /\ Rendered
    /\ \E i \in DOMAIN transformed.slots :
          /\ transformed.slots[i].periods = <<>>
          /\ transformed.metricData["temperature"][i].value = Null
          /\ transformed.metricData["wind"][i].formattedValue = Placeholder
    /\ \E i \in DOMAIN transformed.slots :
          /\ transformed.slots[i].periods # <<>>
          /\ transformed.metricData["temperature"][i].value # Null

----------------------------------------------------------------------------
(* Properties of aggregateValues (checked under SpecAggregate) *)

Aggregated == pc = "aggregated" /\ aggregated.done

\* the positions of the values that are neither null nor undefined
Present == {k \in DOMAIN values : ~IsNullish(values[k])}

\* the sum of the numbers at the positions ks
RECURSIVE Total(_, _)
Total(nums, ks) ==
    IF ks = {} THEN Whole(0)
    ELSE LET k == CHOOSE j \in ks : TRUE
         IN  NumAdd(nums[k], Total(nums, ks \ {k}))

\* m is the most frequent value of vals at the positions ks, and of the
\* most frequent values the one that occurs first
IsFirstMode(m, vals, ks) ==
    LET count(v) == Cardinality({k \in ks : vals[k] = v})
        firstAt(v) == CHOOSE k \in ks : vals[k] = v /\ \A j \in ks : vals[j] = v => k <= j
    IN  /\ \E k \in ks : vals[k] = m
        /\ \A k \in ks : count(vals[k]) <= count(m)
        /\ \A k \in ks : count(vals[k]) = count(m) => firstAt(m) <= firstAt(vals[k])

\* C4: when every non-null value of a slot is a plain number,
\* aggregateValues returns the sum of the non-null values under mode 'sum'
\* and otherwise their mean: the sum divided by the count of non-null
\* values, not by the count of records.
C4_SumOrMean ==
    (Aggregated /\ Present # {} /\ \A k \in Present : IsNumber(values[k]))
        => aggregated.value
              = IF aggregated.mode = "sum"
                THEN Total(values, Present)
                ELSE NumDivInt(Total(values, Present), Cardinality(Present))

\* a mean over a slot that holds a null value among its numbers
C4_Witness ==
    /\ Aggregated
    /\ aggregated.mode = "undefined"
    /\ Cardinality(Present) >= 2
    /\ Cardinality(Present) < Len(values)
    /\ \A k \in Present : IsNumber(values[k])
    /\ aggregated.value = NumDivInt(Total(values, Present), Cardinality(Present))
    /\ aggregated.value # Whole(0)

\* C6: getMode returns a value whose count among the non-null inputs is
\* maximal, the first in input order of those that share the maximal count;
\* for text values aggregateValues returns exactly this mode.
C6_ModeFirstWins ==
    /\ (Present # {} /\ \A k \in Present : ~IsWind(values[k]))
          => IsFirstMode(getMode(values), values, Present)
    /\ (Aggregated /\ Present # {} /\ \A k \in Present : values[k].tag = "text")
          => IsFirstMode(aggregated.value, values, Present)

\* a tie between two texts, settled for the one met first
C6_Witness ==
    /\ Aggregated
    /\ \A k \in Present : values[k].tag = "text"
    /\ \E j, k \in Present :
          /\ j < k
          /\ values[j] # values[k]
          /\ Cardinality({i \in Present : values[i] = values[j]})
                = Cardinality({i \in Present : values[i] = values[k]})
          /\ \A i \in Present : i >= j
          /\ aggregated.value = values[j]

\* the positions of the wind values with a speed, and with a direction
WithSpeed == {k \in Present : values[k].speed.tag = "num"}
WithDirection == {k \in Present : values[k].direction.tag = "text"}

\* C7: for a slot of wind values, aggregateValues returns {speed, direction}:
\* speed the mean of the non-null speeds (null if there are none), direction
\* the mode of the present directions, the first seen winning ties (null if
\* there are none); a record with a null speed does not lower the mean.
C7_WindMeanAndMode ==
    (Aggregated /\ Present # {} /\ \A k \in Present : IsWind(values[k]))
        => /\ aggregated.value.tag = "wind"
           /\ aggregated.value.speed
                 = IF WithSpeed = {} THEN Null
                   ELSE NumDivInt(Total([k \in DOMAIN values |->
                                           IF k \in WithSpeed
                                           THEN values[k].speed
                                           ELSE Whole(0)],
                                        WithSpeed),
                                  Cardinality(WithSpeed))
           /\ IF WithDirection = {} THEN aggregated.value.direction = Null
              ELSE IsFirstMode(aggregated.value.direction,
                               [k \in DOMAIN values |->
                                   IF k \in WithDirection
                                   THEN values[k].direction
                                   ELSE Null],
                               WithDirection)

\* wind values of which one has no speed, and two directions in a tie
C7_Witness ==
    /\ Aggregated
    /\ Present # {}
    /\ \A k \in Present : IsWind(values[k])
    /\ WithSpeed # {}
    /\ WithSpeed # Present
    /\ aggregated.value.speed.tag = "num"
    /\ aggregated.value.speed # Whole(0)
    /\ \E j, k \in WithDirection :
          /\ j < k
          /\ values[j].direction # values[k].direction
          /\ aggregated.value.direction = values[j].direction

----------------------------------------------------------------------------
(* Properties of distributeTimeSeries (checked under SpecDistribute) *)

Distributed == pc = "distributed" /\ ~IsNullish(series)

\* the span, in hours, that a duration of the form PT<N>H states
StatedSpans == {<<<<"P", "T", "1", "H">>, 1>>, <<<<"P", "T", "2", "H">>, 2>>, <<<<"P", "T", "3", "H">>, 3>>}

HasSpan(e) ==
    /\ Len(e.validTime.rest) >= 1
    /\ \E sp \in StatedSpans : sp[1] = e.validTime.rest[1]

SpanOf(e) == (CHOOSE sp \in StatedSpans : sp[1] = e.validTime.rest[1])[2]

\* the entry's value, an absent one counted as 0
ValueOf(e) == IF IsNullish(e.value) THEN Whole(0) ELSE e.value

\* the hour keys the entry covers: T, T+1h, ..., T+(N-1)h
Covered(e) == {e.validTime.iso + h * HOUR : h \in 0..(SpanOf(e) - 1)}

AllSpansStated == \A k \in DOMAIN series.items : HasSpan(series.items[k])

\* the sum of the map's values over the keys ks
RECURSIVE MapTotal(_, _)
MapTotal(map, ks) ==
    IF ks = {} THEN Whole(0)
    ELSE LET k == CHOOSE j \in ks : TRUE
         IN  NumAdd(map[k], MapTotal(map, ks \ {k}))

\* the sum over the entries at positions ks of what each gives to hour key
RECURSIVE Contributions(_, _)
Contributions(key, ks) ==
    IF ks = {} THEN Whole(0)
    ELSE LET k == CHOOSE j \in ks : TRUE
             e == series.items[k]
         IN  NumAdd(IF key \in Covered(e)
                    THEN NumDivInt(ValueOf(e), SpanOf(e))
                    ELSE Whole(0),
                    Contributions(key, ks \ {k}))

\* the sum of the entries' values
RECURSIVE EntriesTotal(_)
EntriesTotal(ks) ==
    IF ks = {} THEN Whole(0)
    ELSE LET k == CHOOSE j \in ks : TRUE
         IN  NumAdd(ValueOf(series.items[k]), EntriesTotal(ks \ {k}))

Reverse(items) == [k \in DOMAIN items |-> items[Len(items) + 1 - k]]

\* C8: one entry with start T, span N >= 1 hours and value v is mapped to
\* exactly the N keys T, T+1h, ..., T+(N-1)h, each receiving v/N; and over
\* any input whose spans are all >= 1 hour the sum of the map's values equals
\* the sum of the entries' values, an absent value counted as 0.
C8_EvenSplitKeepsTotal ==
    (Distributed /\ AllSpansStated)
        => /\ ~distributed.threw
           /\ Len(series.items) = 1
                 => LET e == series.items[1]
                    IN  /\ DOMAIN distributed.map = Covered(e)
                        /\ \A key \in Covered(e) :
                              distributed.map[key]
                                  = NumDivInt(ValueOf(e), SpanOf(e))
           /\ MapTotal(distributed.map, DOMAIN distributed.map)
                 = EntriesTotal(DOMAIN series.items)

\* the entry {start: T, hours: 3, value: 9}: 3 to each of T, T+1h, T+2h
C8_Witness ==
    /\ Distributed
    /\ Len(series.items) = 1
    /\ series.items[1].validTime.rest = <<<<"P", "T", "3", "H">>>>
    /\ series.items[1].value = Whole(9)
    /\ LET T == series.items[1].validTime.iso
       IN  /\ DOMAIN distributed.map = {T, T + HOUR, T + 2 * HOUR}
           /\ \A key \in DOMAIN distributed.map : distributed.map[key] = Whole(3)

\* C9: when several entries cover the same hour, the map's value for that
\* hour is the sum of the per-hour contributions of all the entries covering
\* it, in any order of the entries; a later entry never overwrites an
\* earlier one's contribution.
C9_OverlapsSummed ==
    (Distributed /\ AllSpansStated)
        => /\ DOMAIN distributed.map
                 = UNION {Covered(series.items[k]) : k \in DOMAIN series.items}
           /\ \A key \in DOMAIN distributed.map :
                 distributed.map[key] = Contributions(key, DOMAIN series.items)
           /\ distributeTimeSeries(
                  [tag |-> "array", items |-> Reverse(series.items)]).map
                 = distributed.map

\* two entries with different per-hour shares meet on one hour
C9_Witness ==
    /\ Distributed
    /\ AllSpansStated
    /\ Len(series.items) = 2
    /\ \E key \in Covered(series.items[1]) \cap Covered(series.items[2]) :
          /\ NumDivInt(ValueOf(series.items[1]), SpanOf(series.items[1]))
                # NumDivInt(ValueOf(series.items[2]), SpanOf(series.items[2]))
          /\ ValueOf(series.items[1]) # Whole(0)
          /\ ValueOf(series.items[2]) # Whole(0)
          /\ distributed.map[key]
                = NumAdd(NumDivInt(ValueOf(series.items[1]),
                                   SpanOf(series.items[1])),
                         NumDivInt(ValueOf(series.items[2]),
                                   SpanOf(series.items[2])))

\* the duration cannot be parsed as PT<N>H: it is missing, empty or of
\* another form
Unparsable(e) ==
    \/ Len(e.validTime.rest) = 0
    \/ e.validTime.rest[1] \in {<<>>, <<"P", "1", "D">>}

\* C10: for every entry whose span duration cannot be parsed as 'PT<N>H'
\* (a missing duration part, an empty string or another duration form
\* included), distributeTimeSeries treats the span as 1 hour and completes
\* without raising an error.
C10_UnparsableIsOneHour ==
    (Distributed /\ Len(series.items) = 1 /\ Unparsable(series.items[1]))
        => /\ ~distributed.threw
           /\ DOMAIN distributed.map = {series.items[1].validTime.iso}
           /\ distributed.map[series.items[1].validTime.iso]
                 = ValueOf(series.items[1])

----------------------------------------------------------------------------
(* Properties of mergePrecipData (checked under SpecMerge) *)

Merged == pc = "merged" /\ merged.done /\ ~merged.threw

snowMap == distributeTimeSeries(seriesValues(gridData.snowfallAmount)).map
precipMap ==
    distributeTimeSeries(seriesValues(gridData.quantitativePrecipitation)).map

\* the entries of the interval series of that name
EntriesOf(name) ==
    IF IsNullish(seriesValues(gridData[name])) THEN {}
    ELSE {gridData[name].values.items[k] :
             k \in DOMAIN gridData[name].values.items}

\* the clock hour an instant falls in
ClockHour(t) == t \div HOUR

\* C11: every key of the maps that distributeTimeSeries produces is an exact
\* hour boundary, and a record and an interval entry that fall in the same
\* clock hour meet on the same key: the record's lookup key is a key of the
\* map.
C11_KeysOnTheHour ==
    Merged =>
        /\ \A key \in DOMAIN snowMap \cup DOMAIN precipMap : key % HOUR = 0
        /\ \A k \in DOMAIN periods :
              /\ \A e \in EntriesOf("snowfallAmount") :
                    ClockHour(e.validTime.iso) = ClockHour(periods[k].startTime)
                        => periods[k].startTime \in DOMAIN snowMap
              /\ \A e \in EntriesOf("quantitativePrecipitation") :
                    ClockHour(e.validTime.iso) = ClockHour(periods[k].startTime)
                        => periods[k].startTime \in DOMAIN precipMap

AmountFields == {"snowfallAmount", "precipAmount"}

\* C12: after mergePrecipData every record has snowfallAmount equal to the
\* snow map's value at the record's start timestamp and precipAmount equal
\* to the precipitation map's value at it, and 0 where the map has no entry
\* for that timestamp (an absent series included); no other field of the
\* record is changed.
C12_MergeSetsAmounts ==
    Merged =>
        /\ Len(merged.periods) = Len(periods)
        /\ \A k \in DOMAIN periods :
              LET ts == periods[k].startTime
                  after == merged.periods[k]
              IN  /\ after.snowfallAmount
                        = IF ts \in DOMAIN snowMap THEN snowMap[ts] ELSE Whole(0)
                  /\ after.precipAmount
                        = IF ts \in DOMAIN precipMap THEN precipMap[ts] ELSE Whole(0)
                  /\ DOMAIN after = DOMAIN periods[k]
                  /\ \A f \in DOMAIN after \ AmountFields :
                        after[f] = periods[k][f]

\* a record that the snow series covers and the precipitation series, being
\* absent, does not; and a record that the snow series does not cover
C12_Witness ==
    /\ Merged
    /\ gridData.quantitativePrecipitation = Undefined
    /\ \E k \in DOMAIN periods :
          /\ periods[k].startTime \in DOMAIN snowMap
          /\ merged.periods[k].snowfallAmount = Whole(3)
          /\ merged.periods[k].precipAmount = Whole(0)
    /\ \E k \in DOMAIN periods :
          /\ periods[k].startTime \notin DOMAIN snowMap
          /\ merged.periods[k].snowfallAmount = Whole(0)

----------------------------------------------------------------------------
(* Properties of the metric registry (checked under SpecRegistry) *)

CellOf(id) == pc = "cell" /\ cell.done /\ cell.id = id

\* 5000 + (temp - 32) * 200, for the temperature n/d
RawSnowLevel(temp) == Num(5000 * temp.d + (temp.n - 32 * temp.d) * 200, temp.d)

\* C13: the snow-level extraction returns null when the temperature is
\* absent, 0 when it is <= 32, and otherwise
\* min(10000, max(0, 5000 + (temp - 32) * 200)); the result is null or lies
\* in [0, 10000]; 32 gives 0, 40 gives 6600, 120 gives 10000.
C13_SnowLevel ==
    CellOf("snow-level") =>
        LET temp == record.temperature
            level == cell.extracted
        IN  /\ IsNullish(temp) => level = Null
            /\ (IsNumber(temp) /\ NumLe(temp, Whole(32))) => level = Whole(0)
            /\ (IsNumber(temp) /\ ~NumLe(temp, Whole(32)))
                  => level = NumMin(Whole(10000),
                                    NumMax(Whole(0), RawSnowLevel(temp)))
            /\ \/ level = Null
               \/ IsNumber(level) /\ NumLe(Whole(0), level)
                                  /\ NumLe(level, Whole(10000))
            /\ temp = Whole(32) => level = Whole(0)
            /\ temp = Whole(40) => level = Whole(6600)
            /\ temp = Whole(120) => level = Whole(10000)

\* a temperature whose level, 10200, is cut down to 10000
C13_Witness ==
    /\ CellOf("snow-level")
    /\ record.temperature = Whole(58)
    /\ RawSnowLevel(record.temperature) = Whole(10200)
    /\ cell.extracted = Whole(10000)

\* The priority list of the conditions format: a rule matches a lower-cased
\* text when, for one of its alternatives, the text includes every keyword
\* of the alternative.
ConditionRules ==
    <<[icon |-> "thunder", any |-> {{K_thunder}}],
      [icon |-> "blizzard", any |-> {{K_blizzard}}],
      [icon |-> "snow-rain", any |-> {{K_snow, K_rain}}],
      [icon |-> "freezing-rain", any |-> {{K_freezing_rain}, {K_sleet}}],
      [icon |-> "snow", any |-> {{K_snow}}],
      [icon |-> "rain", any |-> {{K_rain}, {K_showers}}],
      [icon |-> "fog", any |-> {{K_fog}, {K_mist}}],
      [icon |-> "partly-cloudy", any |-> {{K_partly_cloudy}, {K_partly_sunny}}],
      [icon |-> "mostly-cloudy", any |-> {{K_mostly_cloudy}}],
      [icon |-> "cloudy", any |-> {{K_cloud}, {K_overcast}}],
      [icon |-> "sunny", any |-> {{K_sunny}, {K_clear}}],
      [icon |-> "windy", any |-> {{K_wind}}]>>

\* the rules that match the text str, by their rank in the list
Matching(str) ==
    {r \in DOMAIN ConditionRules :
        \E alt \in ConditionRules[r].any :
            \A kw \in alt : Includes(ToLowerCase(str), kw)}

\* what the priority list gives for str
ByPriority(str) ==
    IF Matching(str) = {} THEN RawText(str)
    ELSE Icon(ConditionRules[CHOOSE r \in Matching(str) :
                                \A q \in Matching(str) : r <= q].icon)

\* the conditions cell of a record that has a forecast text
ConditionsCell == CellOf("conditions") /\ cell.value.tag = "text"

----------------------------------------------------------------------------
(* Properties of the unit toggle and of empty input (checked under Spec) *)

OtherUnit == IF unitSystem = "imperial" THEN "metric" ELSE "imperial"

\* C14: for the same hourly records the raw aggregated value of every
\* (metric, slot) pair is the same under getMetrics('imperial') and
\* getMetrics('metric'): the unit system only decides how format shows the
\* stored aggregate, and format leaves that aggregate as it is.
C14_AggregateUnitFree ==
    Rendered =>
        \A id \in MetricIdSet :
            LET shown == transformed.metricData[id]
                other == transformForecast(tz, periods, OtherUnit).metricData[id]
            IN  /\ [i \in DOMAIN shown |-> shown[i].value]
                      = [i \in DOMAIN other |-> other[i].value]
                /\ \A i \in DOMAIN shown :
                      shown[i].formattedValue = format(id, unitSystem, shown[i].value)

\* after a toggle to 'metric': a slot whose stored temperature is still 30
\* (Fahrenheit) and is shown as -1 degrees
C14_Witness ==
    /\ Rendered
    /\ unitSystem = "metric"
    /\ \E i \in DOMAIN transformed.slots :
          /\ transformed.metricData["temperature"][i].value = Whole(30)
          /\ transformed.metricData["temperature"][i].formattedValue
                = Rounded(0 - 1, "deg", FALSE)
          /\ transformed.metricData["wind"][i].value.speed = Whole(15)
          /\ transformed.metricData["wind"][i].formattedValue
                = Rounded(24, "", FALSE)

\* C16: a unit toggle recomputes formatting only: the handler does not
\* compute slot membership (groupIntoSlots) or the slots' aggregates
\* (aggregateValues) again, it applies format to the values already
\* aggregated.
C16_ToggleReformatsOnly ==
    (ran.by = "toggleUnits" /\ Len(periods) >= 1)
        => /\ "format" \in ran.fns
           /\ "groupIntoSlots" \notin ran.fns
           /\ "aggregateValues" \notin ran.fns

\* C20: for an empty hourly record sequence the transform still yields the
\* slot grid, every slot's aggregate being null for every metric (and shown
\* as the placeholder), as for a slot without records.
C20_EmptyInputNullGrid ==
    (pc = "rendered" /\ Len(periods) = 0)
        => /\ Len(transformed.slots) = TOTAL_SLOTS
           /\ \A id \in MetricIdSet :
                 /\ Len(transformed.metricData[id]) = TOTAL_SLOTS
                 /\ \A i \in DOMAIN transformed.metricData[id] :
                       /\ transformed.metricData[id][i].value = Null
                       /\ transformed.metricData[id][i].formattedValue
                             = Placeholder

----------------------------------------------------------------------------
(* Properties of the application (checked under SpecApp) *)

\* the runs that have completed and are still kept: the last completed one
Done == {l \in DOMAIN loads : loads[l].pc = "done"}

\* the calls that wait for the network
Awaiting == {<<l, r>> \in (DOMAIN loads) \X ResortSet :
                loads[l].calls[r].pc = "awaiting"}

Items(results) == {results.items[i] : i \in DOMAIN results.items}
Elements(sq) == {sq[i] : i \in DOMAIN sq}

\* the step is a unit toggle: nothing else assigns unitSystem
ToggleStep == unitSystem' # unitSystem

\* C15: toggleUnits starts no fetch (no call of fetchResortForecast is made,
\* none changes, the cache is not touched) and changes neither cachedResults
\* nor lastUpdate: it flips unitSystem between 'imperial' and 'metric', so
\* that two toggles in a row restore it, and renders the results of the last
\* completed load again, if there is one.
C15_ToggleFrame ==
    [][ToggleStep =>
          /\ loads' = loads
          /\ cache' = cache
          /\ now' = now
          /\ cachedResults' = cachedResults
          /\ lastUpdate' = lastUpdate
          /\ unitSystem \in {"imperial", "metric"}
          /\ unitSystem' = OtherUnit
          /\ IF Done = {} THEN cachedResults = Null /\ view' = view
             ELSE \E l \in Done :
                     /\ loads[l].results = cachedResults
                     /\ view'.kind = "forecast"
                     /\ view'.unit = unitSystem'
                     /\ Elements(view'.table) \cup Elements(view'.errors)
                           = Items(loads[l].results)
                     /\ \A item \in Elements(view'.table) : item.error = Null
                     /\ \A item \in Elements(view'.errors) : item.error # Null
       ]_vars

\* the table shown in metric units while a later load is still waiting for
\* the network: the toggle has rendered the results of the completed load
C15_Witness ==
    /\ pc = "app"
    /\ unitSystem = "metric"
    /\ Done # {}
    /\ Awaiting # {}
    /\ lastUpdate # Null
    /\ view.kind = "forecast"
    /\ view.unit = "metric"
    /\ \E l \in Done : Elements(view.table) \cup Elements(view.errors)
                            = Items(loads[l].results)

\* the step starts a run of loadForecasts: its calls are the last of loads'
LoadStep == Len(loads') = Len(loads) + 1

\* the step in which the call of run l for resort r gets its last response
Settles(l, r) ==
    /\ l \in DOMAIN loads
    /\ loads[l].calls[r].pc = "awaiting"
    /\ loads'[l].calls[r].pc = "settled"

\* C18: the cache holds, per coordinate, the records of the last successful
\* fetch and the instant it completed. A call of fetchResortForecast less
\* than 10 minutes after that instant is settled at once with the cached
\* records and error null, sending no request; a call 10 minutes or more
\* after it, or without an earlier successful fetch, goes to the network.
C18_CacheTenMinutes ==
    [][/\ \A r \in ResortSet :
             (/\ r \in DOMAIN cache'
              /\ IF r \in DOMAIN cache THEN cache'[r] # cache[r] ELSE TRUE)
                 => /\ \E l \in DOMAIN loads :
                          /\ Settles(l, r)
                          /\ loads'[l].calls[r].result.error = Null
                          /\ loads'[l].calls[r].result.periods = cache'[r].data
                    /\ cache'[r].timestamp = now
       /\ LoadStep =>
              \A r \in ResortSet :
                  LET call == loads'[Len(loads')].calls[r]
                  IN  IF r \in DOMAIN cache /\ now - cache[r].timestamp < 10
                      THEN /\ call.pc = "settled"
                           /\ call.result
                                 = [resort |-> r, periods |-> cache[r].data,
                                    error |-> Null]
                      ELSE call.pc = "awaiting"
       ]_vars

\* a run started at minute 10: the resort fetched at minute 0 goes to the
\* network again, the one fetched at minute 9 is served from the cache
C18_Witness ==
    /\ pc = "app"
    /\ now = 10
    /\ DOMAIN cache = ResortSet
    /\ \E l \in DOMAIN loads, r, q \in ResortSet :
          /\ cache[r].timestamp = 0
          /\ loads[l].calls[r].pc = "awaiting"
          /\ cache[q].timestamp = 9
          /\ loads[l].calls[q].outcome = "cached"
          /\ loads[l].calls[q].result.periods = Forecast(q, 9)
          /\ loads[l].calls[q].result.error = Null

\* C19: fetchAllForecasts settles every resort on its own. A completed run
\* has one result per resort, in the order of the list; the result of a
\* resort whose fetch failed (grid point, hourly forecast or gridpoint
\* data) is {periods: [], error: non-null}, that of the others holds their
\* records with error null; a run whose calls have all settled has
\* completed (the promise is never rejected); and the step in which a
\* fetch fails leaves the cache and every other call as they were.
C19_SettleAll ==
    /\ [](\A l \in DOMAIN loads :
            /\ loads[l].pc \in {"fetching", "done", "forgotten"}
            /\ AllSettled(loads[l]) => loads[l].pc # "fetching"
            /\ loads[l].pc = "done"
                  => /\ Len(loads[l].results.items) = Len(resorts)
                     /\ \A i \in DOMAIN resorts :
                           LET r == resorts[i]
                               item == loads[l].results.items[i]
                               outcome == loads[l].calls[r].outcome
                           IN  /\ item.resort = r
                               /\ outcome \in {"ok", "cached"} \cup FailureKinds
                               /\ outcome \in FailureKinds
                                     => /\ item.periods = EmptyPeriods
                                        /\ item.error # Null
                               /\ outcome \in {"ok", "cached"}
                                     => /\ item.periods.resort = r
                                        /\ item.error = Null)
    /\ [][\A l \in DOMAIN loads, r \in ResortSet :
             (Settles(l, r) /\ loads'[l].calls[r].outcome \in FailureKinds)
                 => /\ cache' = cache
                    /\ \A k \in DOMAIN loads, q \in ResortSet :
                          (<<k, q>> # <<l, r>> /\ loads'[k].pc # "forgotten")
                              => loads'[k].calls[q] = loads[k].calls[q]
          ]_vars

\* a completed run of which one resort failed and the other did not; the
\* cache holds the records of the other one only
C19_Witness ==
    /\ pc = "app"
    /\ \E l \in Done, r, q \in ResortSet :
          /\ loads[l].calls[r].outcome = "griddata"
          /\ loads[l].calls[q].outcome = "ok"
          /\ \E i, j \in DOMAIN resorts :
                /\ resorts[i] = r
                /\ resorts[j] = q
                /\ loads[l].results.items[i].error # Null
                /\ loads[l].results.items[i].periods = EmptyPeriods
                /\ loads[l].results.items[j].error = Null
                /\ loads[l].results.items[j].periods.resort = q
          /\ DOMAIN cache = {q}

----------------------------------------------------------------------------
(* Error paths of the aggregation core (checked under SpecRegistry) *)

\* C21: for every record, also one of which any subset of the fields is
\* missing or null or whose extracted value is neither a wind object, a
\* number nor a text, extracting, aggregating and formatting a metric never
\* throws, and a value that is absent gives a null aggregate shown as the
\* placeholder under both unit systems.
C21_NoFatalErrorPath ==
    /\ pc # "threw"
    /\ (pc = "cell" /\ cell.done /\ IsNullish(cell.extracted))
          => /\ cell.value = Null
             /\ cell.imperial = Placeholder
             /\ cell.metric = Placeholder

----------------------------------------------------------------------------
(* Purity of transformForecast (checked under Spec) *)

\* a step in which transformForecast runs
TransformStep == ran' # ran \/ transformed' # transformed

----------------------------------------------------------------------------
(* Overlapping runs of loadForecasts (checked under SpecApp) *)

\* every run started so far has completed, and at least two have run
AllCompleted ==
    /\ Len(loads) >= 2
    /\ \A l \in DOMAIN loads : loads[l].pc # "fetching"

\* C23: once all the runs of loadForecasts have completed, the results
\* kept in cachedResults and rendered in the container are those of the run
\* that was started last, and lastUpdate is set.
C23_LastStartedWins ==
    AllCompleted =>
        LET last == loads[Len(loads)]
        IN  /\ last.pc = "done"
            /\ cachedResults = last.results
            /\ view.kind = "forecast"
            /\ Elements(view.table) \cup Elements(view.errors)
                  = Items(last.results)
            /\ lastUpdate # Null

----------------------------------------------------------------------------
(* Properties of the combined table (checked under SpecTable) *)

Shown == pc = "table" /\ Len(view.tables) = 1

\* the successful results, in the order of their rows in the table
Tabled == SelectSeq(cachedResults.items, Successful)

\* the slots of the k-th successful resort
SlotsOfResort(k) == groupIntoSlots(tz, Tabled[k].periods)

\* C24: every metric row of the combined table has as many value cells as
\* the header has time columns, and the cell in column i aggregates the
\* 4-hour window that starts where the window of header column i starts.
C24_RowsMatchHeader ==
    Shown =>
        LET table == view.tables[1]
        IN  \A k \in DOMAIN table.body, m \in DOMAIN MetricIds :
                /\ Len(table.body[k].rows[m].cells) = Len(table.timeRow)
                /\ \A i \in DOMAIN table.body[k].rows[m].cells :
                      /\ i \in DOMAIN SlotsOfResort(1)
                      /\ SlotsOfResort(k)[i].startTime
                            = SlotsOfResort(1)[i].startTime

\* C25: a wind cell has one of the four colour classes only when its
\* aggregate has a numeric speed; with a null aggregate (empty slot) or an
\* aggregate of speed null it has no colour class.
C25_WindClassNeedsSpeed ==
    Shown =>
        \A k \in DOMAIN view.tables[1].body, m \in DOMAIN MetricIds :
            LET row == view.tables[1].body[k].rows[m]
                data == transformForecast(tz, Tabled[k].periods, unitSystem)
                            .metricData[row.metric]
            IN  row.metric = "wind" =>
                    \A i \in DOMAIN row.cells :
                        IF data[i].value # Null /\ IsNumber(data[i].value.speed)
                        THEN row.cells[i].class
                                \in {"wind-light", "wind-moderate",
                                     "wind-high", "wind-extreme"}
                        ELSE row.cells[i].class = ""

=============================================================================
